---- MODULE Spec2Model ----
(***************************************************************************)
(* Theseus and the Minotaur (src/src/lib.rs): board parsing                *)
(* (process_char, Grid::from_board), the Grid bounds test and the Game     *)
(* state machine (theseus_move, minotaur_move, status).                    *)
(*                                                                         *)
(* Positions are (row, col) pairs of 0-based indices as in the source:     *)
(* pos[1] is pos.0 and pos[2] is pos.1.  A Vec is a TLA+ sequence, read at *)
(* a 0-based index i as v[i + 1].  A char is a one-character string and a  *)
(* &str is a sequence of chars.                                            *)
(***************************************************************************)
EXTENDS Integers, Sequences, FiniteSets, TLC

(* ------------------------------------------------------------------ *)
(* Characters                                                          *)
(* ------------------------------------------------------------------ *)
EMPTY == " "
WALL == "X"
GOAL == "G"
THESEUS == "T"
MINOTAUR == "M"
NEWLINE == "\n"
\* one representative of "all other characters" (process_char line 74)
INVALID == "a"

Commands == {"Up", "Down", "Left", "Right", "Skip"}

\* Option<(usize, usize)>: None is the empty sequence, Some(p) is <<p>>
None == <<>>
Some(p) == <<p>>
is_none(o) == o = None
unwrap(o) == o[1]

\* usize::MAX, the value `0 - 1` wraps to in a build without overflow checks.
\* The model only compares it with indices of the board, all far below it.
USIZE_MAX == 2147483647

Max(a, b) == IF a >= b THEN a ELSE b

(* ------------------------------------------------------------------ *)
(* str::lines(): split at "\n"; a trailing empty piece is no line      *)
(* ------------------------------------------------------------------ *)
RECURSIVE SplitNewline(_, _, _)
SplitNewline(s, i, cur) ==
    IF i > Len(s) THEN <<cur>>
    ELSE IF s[i] = NEWLINE THEN <<cur>> \o SplitNewline(s, i + 1, <<>>)
    ELSE SplitNewline(s, i + 1, Append(cur, s[i]))

lines(text) ==
    LET parts == SplitNewline(text, 1, <<>>)
    IN  IF parts[Len(parts)] = <<>> THEN SubSeq(parts, 1, Len(parts) - 1)
        ELSE parts

(* ------------------------------------------------------------------ *)
(* process_char: Ok(chr) with the updated positions, or Err            *)
(* ------------------------------------------------------------------ *)
\* Mutation of process_char: a second 'T' is accepted and replaces the
\* recorded position
process_char_last_theseus_wins(chr, curr_pos, g_pos, t_pos, m_pos) ==
    LET ok(g, t, m) == [ok |-> TRUE, err |-> <<>>, g_pos |-> g, t_pos |-> t, m_pos |-> m]
        fail(e) == [ok |-> FALSE, err |-> e, g_pos |-> g_pos, t_pos |-> t_pos, m_pos |-> m_pos]
    IN  IF chr = EMPTY \/ chr = WALL THEN ok(g_pos, t_pos, m_pos)
        ELSE IF chr = GOAL THEN
            IF ~is_none(g_pos) THEN fail(<<"MultipleGoal">>)
            ELSE ok(Some(curr_pos), t_pos, m_pos)
        ELSE IF chr = THESEUS THEN ok(g_pos, Some(curr_pos), m_pos)
        ELSE IF chr = MINOTAUR THEN
            IF ~is_none(m_pos) THEN fail(<<"MultipleMinotaur">>)
            ELSE ok(g_pos, t_pos, Some(curr_pos))
        ELSE fail(<<"InvalidCharacter", chr>>)

process_char(chr, curr_pos, g_pos, t_pos, m_pos) ==
    LET ok(g, t, m) == [ok |-> TRUE, err |-> <<>>, g_pos |-> g, t_pos |-> t, m_pos |-> m]
        fail(e) == [ok |-> FALSE, err |-> e, g_pos |-> g_pos, t_pos |-> t_pos, m_pos |-> m_pos]
    IN  IF chr = EMPTY \/ chr = WALL THEN ok(g_pos, t_pos, m_pos)
        ELSE IF chr = GOAL THEN
            IF ~is_none(g_pos) THEN fail(<<"MultipleGoal">>)
            ELSE ok(Some(curr_pos), t_pos, m_pos)
        ELSE IF chr = THESEUS THEN
            IF ~is_none(t_pos) THEN fail(<<"MultipleTheseus">>)
            ELSE ok(g_pos, Some(curr_pos), m_pos)
        ELSE IF chr = MINOTAUR THEN
            IF ~is_none(m_pos) THEN fail(<<"MultipleMinotaur">>)
            ELSE ok(g_pos, t_pos, Some(curr_pos))
        ELSE fail(<<"InvalidCharacter", chr>>)

(* ------------------------------------------------------------------ *)
(* Grid::from_board                                                    *)
(* ------------------------------------------------------------------ *)
\* The scan state: the three Options, col_bound, the grid built so far and
\* the way the scan ended early ("run" while it has not).
ScanStart ==
    [g_pos |-> None, t_pos |-> None, m_pos |-> None, col_bound |-> 0,
     grid |-> <<>>, row_vec |-> <<>>, end |-> "run", err |-> <<>>]

\* the inner loop (lines 97-104) over the chars of one line, from column col
RECURSIVE ScanChars(_, _, _, _)
ScanChars(line, row, col, st) ==
    IF col >= Len(line) THEN st
    ELSE LET r == process_char(line[col + 1], <<row, col>>, st.g_pos, st.t_pos, st.m_pos)
         IN  IF ~r.ok THEN [st EXCEPT !.end = "err", !.err = r.err]
             ELSE ScanChars(line, row, col + 1,
                     [st EXCEPT !.g_pos = r.g_pos, !.t_pos = r.t_pos, !.m_pos = r.m_pos,
                                !.row_vec = Append(@, line[col + 1])])

\* `len - 1` on usize: an empty Vec underflows; overflow is "panic" (overflow
\* checks on) or "wrap" (overflow checks off)
LenMinusOne(len, overflow) ==
    IF len > 0 THEN len - 1
    ELSE IF overflow = "wrap" THEN USIZE_MAX
    ELSE -1

\* the outer loop (lines 95-107) over the lines, from row
RECURSIVE ScanLines(_, _, _, _)
ScanLines(ls, row, st, overflow) ==
    IF row >= Len(ls) THEN st
    ELSE LET s1 == ScanChars(ls[row + 1], row, 0, [st EXCEPT !.row_vec = <<>>])
             last_col == LenMinusOne(Len(s1.row_vec), overflow)
         IN  IF s1.end # "run" THEN s1
             ELSE IF last_col < 0 THEN [s1 EXCEPT !.end = "panic"]
             ELSE ScanLines(ls, row + 1,
                     [s1 EXCEPT !.col_bound = Max(@, last_col),
                                !.grid = Append(@, s1.row_vec)],
                     overflow)

Err(e) == [tag |-> "Err", err |-> e]
Panic == [tag |-> "Panic"]
Ok(g) == [tag |-> "Ok", grid |-> g]

\* Mutation of from_board: the missing-entity tests run in the order
\* Theseus, Goal, Minotaur
from_board_theseus_first(text, overflow) ==
    LET st == ScanLines(lines(text), 0, ScanStart, overflow)
        row_bound == LenMinusOne(Len(st.grid), overflow)
    IN  IF st.end = "err" THEN Err(st.err)
        ELSE IF st.end = "panic" THEN Panic
        ELSE IF row_bound < 0 THEN Panic
        ELSE IF is_none(st.t_pos) THEN Err(<<"NoTheseus">>)
        ELSE IF is_none(st.g_pos) THEN Err(<<"NoGoal">>)
        ELSE IF is_none(st.m_pos) THEN Err(<<"NoMinotaur">>)
        ELSE Ok([vec |-> st.grid, t_pos |-> unwrap(st.t_pos), m_pos |-> unwrap(st.m_pos),
                 row_bound |-> row_bound, col_bound |-> st.col_bound])

\* Mutation of from_board: the Grid is built with the two positions swapped
from_board_positions_swapped(text, overflow) ==
    LET st == ScanLines(lines(text), 0, ScanStart, overflow)
        row_bound == LenMinusOne(Len(st.grid), overflow)
    IN  IF st.end = "err" THEN Err(st.err)
        ELSE IF st.end = "panic" THEN Panic
        ELSE IF row_bound < 0 THEN Panic
        ELSE IF is_none(st.g_pos) THEN Err(<<"NoGoal">>)
        ELSE IF is_none(st.t_pos) THEN Err(<<"NoTheseus">>)
        ELSE IF is_none(st.m_pos) THEN Err(<<"NoMinotaur">>)
        ELSE Ok([vec |-> st.grid, t_pos |-> unwrap(st.m_pos), m_pos |-> unwrap(st.t_pos),
                 row_bound |-> row_bound, col_bound |-> st.col_bound])

from_board(text, overflow) ==
    LET st == ScanLines(lines(text), 0, ScanStart, overflow)
        row_bound == LenMinusOne(Len(st.grid), overflow)
    IN  IF st.end = "err" THEN Err(st.err)
        ELSE IF st.end = "panic" THEN Panic
        ELSE IF row_bound < 0 THEN Panic
        ELSE IF is_none(st.g_pos) THEN Err(<<"NoGoal">>)
        ELSE IF is_none(st.t_pos) THEN Err(<<"NoTheseus">>)
        ELSE IF is_none(st.m_pos) THEN Err(<<"NoMinotaur">>)
        ELSE Ok([vec |-> st.grid, t_pos |-> unwrap(st.t_pos), m_pos |-> unwrap(st.m_pos),
                 row_bound |-> row_bound, col_bound |-> st.col_bound])

\* Grid::in_bounds
in_bounds(g, pos) == pos[1] <= g.row_bound /\ pos[2] <= g.col_bound

(* ------------------------------------------------------------------ *)
(* Cell reads and writes: self.grid.vec[row][col]                      *)
(* ------------------------------------------------------------------ *)
\* vec[row][col] exists; indexing outside it panics
indexable(vec, row, col) ==
    /\ row >= 0 /\ row < Len(vec)
    /\ col >= 0 /\ col < Len(vec[row + 1])

is_theseus(g, row, col) == g.vec[row + 1][col + 1] = THESEUS
is_minotaur(g, row, col) == g.vec[row + 1][col + 1] = MINOTAUR
is_wall(g, row, col) == g.vec[row + 1][col + 1] = WALL
is_goal(g, row, col) == g.vec[row + 1][col + 1] = GOAL
is_empty(g, row, col) == g.vec[row + 1][col + 1] = EMPTY

\* self.grid.vec[pos.0][pos.1] = chr
set_cell(vec, pos, chr) == [vec EXCEPT ![pos[1] + 1][pos[2] + 1] = chr]

(* ------------------------------------------------------------------ *)
(* Game::show: the text printed, each row followed by " " and "\n"     *)
(* ------------------------------------------------------------------ *)
RECURSIVE show_rows(_, _)
show_rows(vec, r) ==
    IF r > Len(vec) THEN <<>>
    ELSE vec[r] \o <<EMPTY, NEWLINE>> \o show_rows(vec, r + 1)

show(g) == show_rows(g.vec, 1)

(* ------------------------------------------------------------------ *)
(* Game::minotaur_move                                                 *)
(* ------------------------------------------------------------------ *)
\* The outcome of a call on (grid g, status): the new grid and status, the
\* branch taken (kind) and whether the call panicked on an index.
Outcome(g, status, kind) == [grid |-> g, status |-> status, kind |-> kind]

\* Mutation of minotaur_select: the vertical branches are tried before the
\* horizontal ones
minotaur_select_vertical_first(g) ==
    LET t == g.t_pos
        m == g.m_pos
        try(guard, p, otherwise) ==
            IF ~guard THEN otherwise
            ELSE IF ~indexable(g.vec, p[1], p[2]) THEN [tag |-> "fault", pos |-> p]
            ELSE IF ~is_wall(g, p[1], p[2]) /\ ~is_goal(g, p[1], p[2])
                 THEN [tag |-> "step", pos |-> p]
            ELSE otherwise
    IN  try(t[1] < m[1], <<m[1] - 1, m[2]>>,
        try(t[1] < m[1], <<m[1] + 1, m[2]>>,
        try(t[2] < m[2], <<m[1], m[2] - 1>>,
        try(t[2] > m[2], <<m[1], m[2] + 1>>,
            [tag |-> "stay", pos |-> m]))))

\* Mutation of minotaur_select: the fourth branch tests "Theseus is below"
\* (t_pos.0 > m_pos.0) instead of repeating the third branch's test
minotaur_select_down_when_below(g) ==
    LET t == g.t_pos
        m == g.m_pos
        try(guard, p, otherwise) ==
            IF ~guard THEN otherwise
            ELSE IF ~indexable(g.vec, p[1], p[2]) THEN [tag |-> "fault", pos |-> p]
            ELSE IF ~is_wall(g, p[1], p[2]) /\ ~is_goal(g, p[1], p[2])
                 THEN [tag |-> "step", pos |-> p]
            ELSE otherwise
    IN  try(t[2] < m[2], <<m[1], m[2] - 1>>,
        try(t[2] > m[2], <<m[1], m[2] + 1>>,
        try(t[1] < m[1], <<m[1] - 1, m[2]>>,
        try(t[1] > m[1], <<m[1] + 1, m[2]>>,
            [tag |-> "stay", pos |-> m]))))

\* Mutation of minotaur_select: the fourth branch has no guard on the rows
minotaur_select_down_unguarded(g) ==
    LET t == g.t_pos
        m == g.m_pos
        try(guard, p, otherwise) ==
            IF ~guard THEN otherwise
            ELSE IF ~indexable(g.vec, p[1], p[2]) THEN [tag |-> "fault", pos |-> p]
            ELSE IF ~is_wall(g, p[1], p[2]) /\ ~is_goal(g, p[1], p[2])
                 THEN [tag |-> "step", pos |-> p]
            ELSE otherwise
    IN  try(t[2] < m[2], <<m[1], m[2] - 1>>,
        try(t[2] > m[2], <<m[1], m[2] + 1>>,
        try(t[1] < m[1], <<m[1] - 1, m[2]>>,
        try(TRUE, <<m[1] + 1, m[2]>>,
            [tag |-> "stay", pos |-> m]))))

\* Mutation of minotaur_select: the cell tests ignore walls
minotaur_select_through_walls(g) ==
    LET t == g.t_pos
        m == g.m_pos
        try(guard, p, otherwise) ==
            IF ~guard THEN otherwise
            ELSE IF ~indexable(g.vec, p[1], p[2]) THEN [tag |-> "fault", pos |-> p]
            ELSE IF ~is_goal(g, p[1], p[2])
                 THEN [tag |-> "step", pos |-> p]
            ELSE otherwise
    IN  try(t[2] < m[2], <<m[1], m[2] - 1>>,
        try(t[2] > m[2], <<m[1], m[2] + 1>>,
        try(t[1] < m[1], <<m[1] - 1, m[2]>>,
        try(t[1] < m[1], <<m[1] + 1, m[2]>>,
            [tag |-> "stay", pos |-> m]))))

\* lines 158-182: the choice of new_pos.  Each branch is
\* `guard && !is_wall(p) && !is_goal(p)`: p is read only when guard holds.
minotaur_select(g) ==
    LET t == g.t_pos
        m == g.m_pos
        try(guard, p, otherwise) ==
            IF ~guard THEN otherwise
            ELSE IF ~indexable(g.vec, p[1], p[2]) THEN [tag |-> "fault", pos |-> p]
            ELSE IF ~is_wall(g, p[1], p[2]) /\ ~is_goal(g, p[1], p[2])
                 THEN [tag |-> "step", pos |-> p]
            ELSE otherwise
    IN  try(t[2] < m[2], <<m[1], m[2] - 1>>,
        try(t[2] > m[2], <<m[1], m[2] + 1>>,
        try(t[1] < m[1], <<m[1] - 1, m[2]>>,
        try(t[1] < m[1], <<m[1] + 1, m[2]>>,
            [tag |-> "stay", pos |-> m]))))

\* Mutations of minotaur_apply.
\* (a) the relocation redraws the grid without storing new_pos in m_pos
minotaur_apply_position_not_stored(g, status, new_pos) ==
    IF is_theseus(g, new_pos[1], new_pos[2])
    THEN Outcome(g, "Lose", "capture")
    ELSE Outcome([g EXCEPT !.vec = set_cell(set_cell(@, g.m_pos, EMPTY), new_pos, MINOTAUR)],
                 status, "step")

\* (b) the capture sets Lose and relocates the minotaur onto Theseus' cell
minotaur_apply_capture_relocates(g, status, new_pos) ==
    Outcome([g EXCEPT !.vec = set_cell(set_cell(@, g.m_pos, EMPTY), new_pos, MINOTAUR),
                      !.m_pos = new_pos],
            IF is_theseus(g, new_pos[1], new_pos[2]) THEN "Lose" ELSE status,
            IF is_theseus(g, new_pos[1], new_pos[2]) THEN "capture" ELSE "step")

\* Mutation of minotaur_apply: the capture test is dropped, the minotaur
\* relocates onto Theseus' cell
minotaur_apply_no_capture(g, status, new_pos) ==
    Outcome([g EXCEPT !.vec = set_cell(set_cell(@, g.m_pos, EMPTY), new_pos, MINOTAUR),
                      !.m_pos = new_pos],
            status, "step")

\* lines 183-190: capture, or relocation of the minotaur to new_pos
minotaur_apply(g, status, new_pos) ==
    IF is_theseus(g, new_pos[1], new_pos[2])
    THEN Outcome(g, "Lose", "capture")
    ELSE Outcome([g EXCEPT !.vec = set_cell(set_cell(@, g.m_pos, EMPTY), new_pos, MINOTAUR),
                           !.m_pos = new_pos],
                 status, "step")

minotaur_move(g, status) ==
    LET sel == minotaur_select(g)
    IN  IF sel.tag = "fault" THEN Outcome(g, status, "fault")
        ELSE IF sel.tag = "stay" THEN Outcome(g, status, "stay")
        ELSE minotaur_apply(g, status, sel.pos)

(* ------------------------------------------------------------------ *)
(* Game::theseus_move                                                  *)
(* ------------------------------------------------------------------ *)
\* lines 195-213: new_pos for the command, None when it returns early
theseus_target(g, command) ==
    LET t == g.t_pos
    IN  IF command = "Up" THEN (IF t[1] = 0 THEN None ELSE Some(<<t[1] - 1, t[2]>>))
        ELSE IF command = "Down" THEN Some(<<t[1] + 1, t[2]>>)
        ELSE IF command = "Left" THEN (IF t[2] = 0 THEN None ELSE Some(<<t[1], t[2] - 1>>))
        ELSE IF command = "Right" THEN Some(<<t[1], t[2] + 1>>)
        ELSE Some(t)

\* Mutations of theseus_resolve.
\* (a) the is_empty test is dropped: any cell that is neither the minotaur
\*     nor the goal is moved into
theseus_resolve_no_empty_test(g, status, new_pos) ==
    IF ~in_bounds(g, new_pos) THEN Outcome(g, status, "out_of_bounds")
    ELSE IF ~indexable(g.vec, new_pos[1], new_pos[2]) THEN Outcome(g, status, "fault")
    ELSE IF is_minotaur(g, new_pos[1], new_pos[2])
         THEN Outcome([g EXCEPT !.t_pos = new_pos], "Lose", "minotaur")
    ELSE IF is_goal(g, new_pos[1], new_pos[2])
         THEN Outcome([g EXCEPT !.t_pos = new_pos], "Win", "goal")
    ELSE Outcome([g EXCEPT !.vec = set_cell(set_cell(@, g.t_pos, EMPTY), new_pos, THESEUS),
                           !.t_pos = new_pos],
                 status, "empty")

\* (b) moving onto the minotaur sets Lose without storing new_pos in t_pos
theseus_resolve_lose_in_place(g, status, new_pos) ==
    IF ~in_bounds(g, new_pos) THEN Outcome(g, status, "out_of_bounds")
    ELSE IF ~indexable(g.vec, new_pos[1], new_pos[2]) THEN Outcome(g, status, "fault")
    ELSE IF is_minotaur(g, new_pos[1], new_pos[2])
         THEN Outcome(g, "Lose", "minotaur")
    ELSE IF is_goal(g, new_pos[1], new_pos[2])
         THEN Outcome([g EXCEPT !.t_pos = new_pos], "Win", "goal")
    ELSE IF is_empty(g, new_pos[1], new_pos[2])
         THEN Outcome([g EXCEPT !.vec = set_cell(set_cell(@, g.t_pos, EMPTY), new_pos, THESEUS),
                                !.t_pos = new_pos],
                      status, "empty")
    ELSE Outcome(g, status, "blocked")

\* (c) moving onto the goal also redraws the grid, as for an empty cell
theseus_resolve_goal_redrawn(g, status, new_pos) ==
    IF ~in_bounds(g, new_pos) THEN Outcome(g, status, "out_of_bounds")
    ELSE IF ~indexable(g.vec, new_pos[1], new_pos[2]) THEN Outcome(g, status, "fault")
    ELSE IF is_minotaur(g, new_pos[1], new_pos[2])
         THEN Outcome([g EXCEPT !.t_pos = new_pos], "Lose", "minotaur")
    ELSE IF is_goal(g, new_pos[1], new_pos[2])
         THEN Outcome([g EXCEPT !.vec = set_cell(set_cell(@, g.t_pos, EMPTY), new_pos, THESEUS),
                                !.t_pos = new_pos],
                      "Win", "goal")
    ELSE IF is_empty(g, new_pos[1], new_pos[2])
         THEN Outcome([g EXCEPT !.vec = set_cell(set_cell(@, g.t_pos, EMPTY), new_pos, THESEUS),
                                !.t_pos = new_pos],
                      status, "empty")
    ELSE Outcome(g, status, "blocked")

\* (d) moving into an empty cell marks it without clearing the old cell
theseus_resolve_no_clear(g, status, new_pos) ==
    IF ~in_bounds(g, new_pos) THEN Outcome(g, status, "out_of_bounds")
    ELSE IF ~indexable(g.vec, new_pos[1], new_pos[2]) THEN Outcome(g, status, "fault")
    ELSE IF is_minotaur(g, new_pos[1], new_pos[2])
         THEN Outcome([g EXCEPT !.t_pos = new_pos], "Lose", "minotaur")
    ELSE IF is_goal(g, new_pos[1], new_pos[2])
         THEN Outcome([g EXCEPT !.t_pos = new_pos], "Win", "goal")
    ELSE IF is_empty(g, new_pos[1], new_pos[2])
         THEN Outcome([g EXCEPT !.vec = set_cell(@, new_pos, THESEUS),
                                !.t_pos = new_pos],
                      status, "empty")
    ELSE Outcome(g, status, "blocked")

\* (e) moving onto the minotaur also redraws the grid, as for an empty cell
theseus_resolve_lose_redrawn(g, status, new_pos) ==
    IF ~in_bounds(g, new_pos) THEN Outcome(g, status, "out_of_bounds")
    ELSE IF ~indexable(g.vec, new_pos[1], new_pos[2]) THEN Outcome(g, status, "fault")
    ELSE IF is_minotaur(g, new_pos[1], new_pos[2])
         THEN Outcome([g EXCEPT !.vec = set_cell(set_cell(@, g.t_pos, EMPTY), new_pos, THESEUS),
                                !.t_pos = new_pos],
                      "Lose", "minotaur")
    ELSE IF is_goal(g, new_pos[1], new_pos[2])
         THEN Outcome([g EXCEPT !.t_pos = new_pos], "Win", "goal")
    ELSE IF is_empty(g, new_pos[1], new_pos[2])
         THEN Outcome([g EXCEPT !.vec = set_cell(set_cell(@, g.t_pos, EMPTY), new_pos, THESEUS),
                                !.t_pos = new_pos],
                      status, "empty")
    ELSE Outcome(g, status, "blocked")

\* lines 214-226: what the cell at new_pos makes of the move
theseus_resolve(g, status, new_pos) ==
    IF ~in_bounds(g, new_pos) THEN Outcome(g, status, "out_of_bounds")
    ELSE IF ~indexable(g.vec, new_pos[1], new_pos[2]) THEN Outcome(g, status, "fault")
    ELSE IF is_minotaur(g, new_pos[1], new_pos[2])
         THEN Outcome([g EXCEPT !.t_pos = new_pos], "Lose", "minotaur")
    ELSE IF is_goal(g, new_pos[1], new_pos[2])
         THEN Outcome([g EXCEPT !.t_pos = new_pos], "Win", "goal")
    ELSE IF is_empty(g, new_pos[1], new_pos[2])
         THEN Outcome([g EXCEPT !.vec = set_cell(set_cell(@, g.t_pos, EMPTY), new_pos, THESEUS),
                                !.t_pos = new_pos],
                      status, "empty")
    ELSE Outcome(g, status, "blocked")

theseus_move(g, status, command) ==
    LET target == theseus_target(g, command)
    IN  IF is_none(target) THEN Outcome(g, status, "underflow")
        ELSE theseus_resolve(g, status, unwrap(target))

(* ------------------------------------------------------------------ *)
(* Boards                                                              *)
(* ------------------------------------------------------------------ *)
\* the longest board text the parser is run on
MaxLen == 5
\* the most cells of a rectangular board a game is played on
MaxCells == 6
\* the most calls made on a game after its status has left Continue (the
\* caller's loop stops there; the operations themselves do not refuse)
MaxExtra == 2

Alphabet == {EMPTY, WALL, GOAL, THESEUS, MINOTAUR, NEWLINE, INVALID}

\* every text of at most MaxLen characters
ParseBoards == UNION {[1..n -> Alphabet] : n \in 0..MaxLen}

\* rows joined by "\n" into one text
RECURSIVE JoinRows(_)
JoinRows(rows) ==
    IF rows = <<>> THEN <<>>
    ELSE IF Len(rows) = 1 THEN rows[1]
    ELSE rows[1] \o <<NEWLINE>> \o JoinRows(Tail(rows))

\* the rows x cols board with G, T, M at cells g, t, m (row-major cell
\* numbers from 0) and walls at the cells of W
RectBoard(rows, cols, g, t, m, W) ==
    LET chr(k) == IF k = g THEN GOAL ELSE IF k = t THEN THESEUS
                  ELSE IF k = m THEN MINOTAUR ELSE IF k \in W THEN WALL ELSE EMPTY
    IN  JoinRows([r \in 1..rows |-> [c \in 1..cols |-> chr((r - 1) * cols + (c - 1))]])

RectBoards(rows, cols) ==
    LET cells == 0..(rows * cols - 1)
    IN  UNION {{RectBoard(rows, cols, x[1], x[2], x[3], W) :
                    W \in SUBSET (cells \ {x[1], x[2], x[3]})} :
               x \in {y \in cells \X cells \X cells :
                        y[1] # y[2] /\ y[1] # y[3] /\ y[2] # y[3]}}

Shapes == {s \in (1..MaxCells) \X (1..MaxCells) : s[1] * s[2] <= MaxCells}

\* the board of the end-to-end example
ExampleBoard ==
    JoinRows(<< <<"X", " ", "X", " ", "X">>,
                <<"X", " ", "T", " ", "X">>,
                <<"X", " ", " ", " ", "X">>,
                <<"X", " ", "M", " ", "X">>,
                <<"X", " ", "G", " ", "X">>,
                <<"X", " ", "X", " ", "X">> >>)

\* boards whose rows differ in length, or with an empty row
RaggedBoards ==
    { JoinRows(<< <<"G", "T">>, <<"M">> >>),
      JoinRows(<< <<"M">>, <<"G", " ", "T">> >>),
      JoinRows(<< <<"T", " ", "G">>, <<"M">> >>),
      JoinRows(<< <<"G", "T", "M">>, <<>>, <<" ">> >>) }

GameBoards ==
    UNION {RectBoards(s[1], s[2]) : s \in Shapes} \cup {ExampleBoard} \cup RaggedBoards

(* ------------------------------------------------------------------ *)
(* State                                                               *)
(* ------------------------------------------------------------------ *)
VARIABLES
    board,   \* the text given to Game::from_board
    pc,      \* "start", then "play" (a Game exists), "failed" (Err) or "panicked"
    err,     \* the BoardError of a failed construction
    grid,    \* Game.grid: [vec, t_pos, m_pos, row_bound, col_bound]
    status,  \* Game.status
    last,    \* the last call: its op, command and branch (kind), and the status
             \* (pre) and positions (t_from, m_from) it started from
    extra    \* the number of calls made since the status left Continue

vars == <<board, pc, err, grid, status, last, extra>>

NoGrid == [vec |-> <<>>, t_pos |-> <<0, 0>>, m_pos |-> <<0, 0>>,
           row_bound |-> 0, col_bound |-> 0]
CallRecord(op, cmd, kind) ==
    [op |-> op, cmd |-> cmd, kind |-> kind, pre |-> status,
     t_from |-> grid.t_pos, m_from |-> grid.m_pos]

Start(b) ==
    /\ board = b
    /\ pc = "start"
    /\ err = <<>>
    /\ grid = NoGrid
    /\ status = "none"
    /\ last = [op |-> "none", cmd |-> "none", kind |-> "none", pre |-> "none",
               t_from |-> <<0, 0>>, m_from |-> <<0, 0>>]
    /\ extra = 0

Init == \E b \in GameBoards : Start(b)
InitParse == \E b \in ParseBoards : Start(b)

(* ------------------------------------------------------------------ *)
(* Actions                                                             *)
(* ------------------------------------------------------------------ *)
\* Game::from_board (lines 135-142)
FromBoard ==
    /\ pc = "start"
    /\ \E overflow \in {"panic", "wrap"} :
        LET r == from_board(board, overflow)
        IN  /\ pc' = (IF r.tag = "Ok" THEN "play" ELSE IF r.tag = "Err" THEN "failed"
                      ELSE "panicked")
            /\ err' = (IF r.tag = "Err" THEN r.err ELSE <<>>)
            /\ grid' = (IF r.tag = "Ok" THEN r.grid ELSE grid)
            /\ status' = (IF r.tag = "Ok" THEN "Continue" ELSE status)
            /\ last' = CallRecord("from_board", "none", r.tag)
    /\ UNCHANGED <<board, extra>>

\* the effect of a call's outcome o; a panicking call ends the program
Call(op, cmd, o) ==
    /\ pc' = (IF o.kind = "fault" THEN "panicked" ELSE pc)
    /\ grid' = o.grid
    /\ status' = o.status
    /\ last' = CallRecord(op, cmd, o.kind)
    /\ extra' = (IF status = "Continue" THEN 0 ELSE extra + 1)
    /\ UNCHANGED <<board, err>>

\* the caller: any call while the game goes on, MaxExtra calls after its end
CallAllowed == status = "Continue" \/ extra < MaxExtra

TheseusMove ==
    /\ pc = "play"
    /\ CallAllowed
    /\ \E command \in Commands :
        Call("theseus_move", command, theseus_move(grid, status, command))

MinotaurMove ==
    /\ pc = "play"
    /\ CallAllowed
    /\ Call("minotaur_move", "none", minotaur_move(grid, status))

Next == FromBoard \/ TheseusMove \/ MinotaurMove
NextParse == FromBoard

Spec == Init /\ [][Next]_vars
SpecParse == InitParse /\ [][NextParse]_vars

(* ------------------------------------------------------------------ *)
(* Vocabulary of the properties                                        *)
(* ------------------------------------------------------------------ *)
\* the (row, col) of the k-th character of the board text: the row is the
\* number of newlines before it, the column its distance from the last one
TextPosition(k) ==
    LET breaks == {j \in 1..(k - 1) : board[j] = NEWLINE}
        start == IF breaks = {} THEN 0 ELSE CHOOSE j \in breaks : \A i \in breaks : i <= j
    IN  <<Cardinality(breaks), k - start - 1>>

\* the position where 'G' was placed on the initial board
GoalCell == TextPosition(CHOOSE k \in 1..Len(board) : board[k] = GOAL)

\* a Game was constructed (a call on it may since have panicked)
HasGame == status # "none"

Terminal(st) == st \in {"Win", "Lose"}

\* the cell one step from pos in the command's direction, as signed numbers
Candidate(pos, cmd) ==
    CASE cmd = "Up" -> <<pos[1] - 1, pos[2]>>
      [] cmd = "Down" -> <<pos[1] + 1, pos[2]>>
      [] cmd = "Left" -> <<pos[1], pos[2] - 1>>
      [] cmd = "Right" -> <<pos[1], pos[2] + 1>>
      [] OTHER -> pos

\* the step is a call of theseus_move(cmd) / of minotaur_move
IsTheseusMove(cmd) == pc = "play" /\ last'.op = "theseus_move" /\ last'.cmd = cmd
IsMinotaurMove == pc = "play" /\ last'.op = "minotaur_move"

(* ------------------------------------------------------------------ *)
(* C1  Win and Lose are terminal                                       *)
(* ------------------------------------------------------------------ *)
\* C1: once status() is Win or Lose, no later theseus_move or minotaur_move
\* call changes it.
C1_TerminalStatusKept ==
    [][(HasGame /\ Terminal(status)) => status' = status]_vars

(* ------------------------------------------------------------------ *)
(* C2  a turn whose seeker move reaches the goal ends in Win           *)
(* ------------------------------------------------------------------ *)
\* C2: a theseus_move from a Continue state that steps onto the goal cell,
\* followed by one minotaur_move, leaves status Win.
C2_GoalTurnEndsInWin ==
    [][(/\ last.op = "theseus_move"
        /\ last.pre = "Continue"
        /\ grid.t_pos = GoalCell
        /\ last.t_from # GoalCell
        /\ IsMinotaurMove) => status' = "Win"]_vars

(* ------------------------------------------------------------------ *)
(* C3  the hunter never occupies the goal cell                         *)
(* ------------------------------------------------------------------ *)
\* C3: in every reachable state of a game the hunter's stored position m_pos
\* differs from the position of 'G' on the initial board (minotaur_move
\* stores new_pos in m_pos exactly when it writes 'M' there).
C3_HunterNeverOnGoal == HasGame => grid.m_pos # GoalCell

(* ------------------------------------------------------------------ *)
(* C4  the example turn                                                *)
(* ------------------------------------------------------------------ *)
ExampleStart ==
    board = ExampleBoard /\ pc = "play" /\ last.op = "from_board"

\* the example game right after its first call, theseus_move(Down)
ExampleAfterDown ==
    /\ board = ExampleBoard /\ pc = "play"
    /\ last.op = "theseus_move" /\ last.cmd = "Down"
    /\ last.t_from = <<1, 2>> /\ last.m_from = <<3, 2>>
    /\ grid.t_pos = <<2, 2>> /\ grid.m_pos = <<3, 2>>
    /\ status = "Continue"

ExampleDownStep ==
    (ExampleStart /\ IsTheseusMove("Down"))
        => /\ grid'.t_pos = <<grid.t_pos[1] + 1, grid.t_pos[2]>>
           /\ status' = "Continue"

\* C4 as stated: on the example board theseus_move(Down) moves the seeker down
\* one row with status Continue, and the following minotaur_move moves the
\* hunter up one row.
C4_ExampleHunterMovesUp ==
    [][/\ ExampleDownStep
       /\ (ExampleAfterDown /\ IsMinotaurMove)
            => grid'.m_pos = <<grid.m_pos[1] - 1, grid.m_pos[2]>>]_vars

\* C4 amended: on the example board theseus_move(Down) moves the seeker down
\* one row with status Continue, and the following minotaur_move selects the
\* cell one row up, which holds the seeker: status becomes Lose and the grid
\* with the hunter's stored position is unchanged.
C4_ExampleHunterCaptures ==
    [][/\ ExampleDownStep
       /\ (ExampleAfterDown /\ IsMinotaurMove)
            => /\ minotaur_select(grid).pos = <<grid.m_pos[1] - 1, grid.m_pos[2]>>
               /\ status' = "Lose"
               /\ grid' = grid]_vars

C4_Witness ==
    /\ board = ExampleBoard
    /\ last.op = "minotaur_move" /\ last.pre = "Continue"
    /\ last.t_from = <<2, 2>> /\ last.m_from = <<3, 2>>
    /\ grid.t_pos = <<2, 2>> /\ grid.m_pos = <<3, 2>>
    /\ status = "Lose"

(* ------------------------------------------------------------------ *)
(* C5  an illegal seeker move is a silent no-op                        *)
(* ------------------------------------------------------------------ *)
\* every row of the grid has the same length
Rectangular(vec) == \A r \in 1..Len(vec) : Len(vec[r]) = Len(vec[1])

\* the character at the signed position p of the grid, "" where there is none
CharAt(vec, p) ==
    IF indexable(vec, p[1], p[2]) THEN vec[p[1] + 1][p[2] + 1] ELSE ""

Underflows(p) == p[1] < 0 \/ p[2] < 0
OutsideBounds(p) == p[1] > grid.row_bound \/ p[2] > grid.col_bound

\* the candidate of theseus_move(cmd) underflows, is outside the bounds or is
\* a wall
IllegalMove(cmd) ==
    LET p == Candidate(grid.t_pos, cmd)
    IN  Underflows(p) \/ OutsideBounds(p) \/ CharAt(grid.vec, p) = WALL

\* C5: on a rectangular board, in any reachable state, a theseus_move whose
\* candidate underflows, lies outside the grid bounds or is a wall cell leaves
\* the grid contents, both positions and the status unchanged.
C5_IllegalMoveIsNoOp ==
    [][\A cmd \in Commands :
        (Rectangular(grid.vec) /\ IsTheseusMove(cmd) /\ IllegalMove(cmd))
            => (grid' = grid /\ status' = status /\ pc' = pc)]_vars

\* a move into a wall was made on a rectangular board
C5_Witness ==
    /\ HasGame /\ Rectangular(grid.vec)
    /\ last.op = "theseus_move"
    /\ last.t_from = grid.t_pos
    /\ CharAt(grid.vec, Candidate(grid.t_pos, last.cmd)) = WALL

\* ... and the two other cases of C5 happen as well
C5_WitnessUnderflow ==
    /\ HasGame /\ Rectangular(grid.vec)
    /\ last.op = "theseus_move" /\ last.t_from = grid.t_pos
    /\ Underflows(Candidate(grid.t_pos, last.cmd))

C5_WitnessOutside ==
    /\ HasGame /\ Rectangular(grid.vec)
    /\ last.op = "theseus_move" /\ last.t_from = grid.t_pos
    /\ ~Underflows(Candidate(grid.t_pos, last.cmd))
    /\ OutsideBounds(Candidate(grid.t_pos, last.cmd))

(* ------------------------------------------------------------------ *)
(* C6  the seeker steps onto the hunter                                *)
(* ------------------------------------------------------------------ *)
\* C6: from a Continue state, a theseus_move whose candidate cell is the
\* hunter's cell sets status to Lose and t_pos to the hunter's position; the
\* hunter's position and the grid contents are unchanged.
C6_StepOntoHunterLoses ==
    [][\A cmd \in Commands :
        (status = "Continue" /\ IsTheseusMove(cmd)
            /\ Candidate(grid.t_pos, cmd) = grid.m_pos)
            => /\ status' = "Lose"
               /\ grid'.t_pos = grid.m_pos
               /\ grid'.m_pos = grid.m_pos
               /\ grid'.vec = grid.vec]_vars

C6_Witness ==
    /\ last.op = "theseus_move" /\ last.pre = "Continue"
    /\ Candidate(last.t_from, last.cmd) = last.m_from
    /\ status = "Lose"
    /\ grid.t_pos = grid.m_pos

(* ------------------------------------------------------------------ *)
(* C7  the seeker steps onto the goal                                  *)
(* ------------------------------------------------------------------ *)
\* C7: from a Continue state, a theseus_move whose candidate cell is in
\* bounds and is the goal cell sets status to Win and t_pos to the goal's
\* position; the grid contents and the hunter's position are unchanged.
C7_StepOntoGoalWins ==
    [][\A cmd \in Commands :
        (status = "Continue" /\ IsTheseusMove(cmd)
            /\ in_bounds(grid, Candidate(grid.t_pos, cmd))
            /\ Candidate(grid.t_pos, cmd) = GoalCell)
            => /\ status' = "Win"
               /\ grid'.t_pos = GoalCell
               /\ grid'.vec = grid.vec
               /\ grid'.m_pos = grid.m_pos]_vars

C7_Witness ==
    /\ last.op = "theseus_move" /\ last.pre = "Continue"
    /\ Candidate(last.t_from, last.cmd) = GoalCell
    /\ last.t_from # GoalCell
    /\ status = "Win"
    /\ grid.t_pos = GoalCell

(* ------------------------------------------------------------------ *)
(* C8  the chase is horizontally prioritized                           *)
(* ------------------------------------------------------------------ *)
\* the hunter's horizontal neighbour on the seeker's side
SideNeighbour(t, m) ==
    IF t[2] < m[2] THEN <<m[1], m[2] - 1>> ELSE <<m[1], m[2] + 1>>

\* that neighbour exists and is neither wall nor goal
SideOpen(vec, t, m) ==
    /\ t[2] # m[2]
    /\ CharAt(vec, SideNeighbour(t, m)) \notin {"", WALL, GOAL}

\* the cell above the hunter exists and is neither wall nor goal
UpOpen(vec, m) == CharAt(vec, <<m[1] - 1, m[2]>>) \notin {"", WALL, GOAL}

\* C8: in a Continue state where the seeker's column differs from the
\* hunter's and the hunter's horizontal neighbour on the seeker's side is
\* neither wall nor goal, minotaur_move selects that neighbour (it captures
\* the seeker there, or moves there) and never changes the hunter's row.
C8_HorizontalFirst ==
    [][(status = "Continue" /\ IsMinotaurMove
            /\ SideOpen(grid.vec, grid.t_pos, grid.m_pos))
        => LET n == SideNeighbour(grid.t_pos, grid.m_pos)
           IN  /\ minotaur_select(grid) = [tag |-> "step", pos |-> n]
               /\ IF CharAt(grid.vec, n) = THESEUS
                  THEN status' = "Lose" /\ grid' = grid
                  ELSE status' = status /\ grid'.m_pos = n
               /\ grid'.m_pos[1] = grid.m_pos[1]]_vars

\* the hunter made a horizontal step while the seeker was strictly above it
\* and the cell above the hunter was open too
C8_Witness ==
    /\ last.op = "minotaur_move" /\ last.pre = "Continue"
    /\ last.t_from[2] # last.m_from[2]
    /\ last.t_from[1] < last.m_from[1]
    /\ grid.m_pos = SideNeighbour(last.t_from, last.m_from)
    /\ UpOpen(grid.vec, last.m_from)

(* ------------------------------------------------------------------ *)
(* Vocabulary of the parsing properties: the board as a text           *)
(* ------------------------------------------------------------------ *)
\* the places of chr in the first n characters of the board
Places(chr, n) == {k \in 1..n : board[k] = chr}
Count(chr) == Cardinality(Places(chr, Len(board)))

\* the first n characters are recognized characters or line breaks
Recognized(n) ==
    \A k \in 1..n : board[k] \in {EMPTY, WALL, GOAL, THESEUS, MINOTAUR, NEWLINE}

\* no row that ends within the first n characters is empty
NoEmptyRow(n) ==
    \A k \in 1..n : board[k] = NEWLINE => (k > 1 /\ board[k - 1] # NEWLINE)

\* from_board has returned (or panicked)
Parsed == pc # "start"
Returned(e) == pc = "failed" /\ err = e

(* ------------------------------------------------------------------ *)
(* C9  missing entities: Goal > Theseus > Minotaur                     *)
(* ------------------------------------------------------------------ *)
\* at least one row, every row non-empty, only ' ', 'X', 'G', 'T', 'M', and
\* no entity twice
WellFormed ==
    /\ Len(board) > 0
    /\ Recognized(Len(board))
    /\ NoEmptyRow(Len(board))
    /\ Count(GOAL) <= 1 /\ Count(THESEUS) <= 1 /\ Count(MINOTAUR) <= 1

\* C9: for every such board from_board returns NoGoal if there is no 'G',
\* otherwise NoTheseus if there is no 'T', otherwise NoMinotaur if there is
\* no 'M', and otherwise succeeds.
C9_MissingEntityPriority ==
    (Parsed /\ WellFormed)
        => IF Count(GOAL) = 0 THEN Returned(<<"NoGoal">>)
           ELSE IF Count(THESEUS) = 0 THEN Returned(<<"NoTheseus">>)
           ELSE IF Count(MINOTAUR) = 0 THEN Returned(<<"NoMinotaur">>)
           ELSE pc = "play" /\ status = "Continue"

\* a board with neither 'G' nor 'T' was parsed
C9_Witness ==
    /\ Parsed /\ WellFormed
    /\ Count(GOAL) = 0 /\ Count(THESEUS) = 0 /\ Count(MINOTAUR) = 1
    /\ Returned(<<"NoGoal">>)

(* ------------------------------------------------------------------ *)
(* C10  two 'T' characters                                             *)
(* ------------------------------------------------------------------ *)
\* the place of the second 'T' of the board
SecondTheseus ==
    CHOOSE k \in Places(THESEUS, Len(board)) :
        Cardinality(Places(THESEUS, k)) = 2

\* C10 as stated: a board that contains two 'T' characters yields
\* MultipleTheseus, whatever else it contains.
C10_TwoTheseusAlways ==
    (Parsed /\ Count(THESEUS) >= 2) => Returned(<<"MultipleTheseus">>)

\* the scan gets to the k-th character: all before it is recognized, with at
\* most one 'G' and one 'M' and no empty row
ScanReaches(k) ==
    /\ Recognized(k - 1)
    /\ NoEmptyRow(k - 1)
    /\ Cardinality(Places(GOAL, k - 1)) <= 1
    /\ Cardinality(Places(MINOTAUR, k - 1)) <= 1

\* C10 amended: a board that contains two 'T' characters yields
\* MultipleTheseus whenever the scan gets to the second 'T' (before it: only
\* recognized characters, at most one 'G' and one 'M', no empty row);
\* whatever follows the second 'T' has no influence.
C10_TwoTheseusWhenReached ==
    (Parsed /\ Count(THESEUS) >= 2 /\ ScanReaches(SecondTheseus))
        => Returned(<<"MultipleTheseus">>)

\* MultipleTheseus was returned for a board with a 'G' before the second 'T'
\* and an unrecognized character after it
C10_Witness ==
    /\ Parsed /\ Count(THESEUS) >= 2 /\ ScanReaches(SecondTheseus)
    /\ Places(GOAL, SecondTheseus) # {}
    /\ \E k \in (SecondTheseus + 1)..Len(board) : board[k] = INVALID
    /\ Returned(<<"MultipleTheseus">>)

(* ------------------------------------------------------------------ *)
(* C11  construction does not mutate the board                         *)
(* ------------------------------------------------------------------ *)
\* non-empty rows, only recognized characters, exactly one G, T and M
ValidBoard ==
    /\ WellFormed
    /\ Count(GOAL) = 1 /\ Count(THESEUS) = 1 /\ Count(MINOTAUR) = 1

\* the number of rows of the text: one per line break, and one more for a
\* last row that no line break ends
RowCount ==
    Count(NEWLINE) + (IF Len(board) > 0 /\ board[Len(board)] # NEWLINE THEN 1 ELSE 0)

\* the grid holds the characters of the text, each at its place, and no more
GridIsBoard ==
    /\ Len(grid.vec) = RowCount
    /\ \A k \in 1..Len(board) :
          board[k] # NEWLINE => CharAt(grid.vec, TextPosition(k)) = board[k]
    /\ \A r \in 1..Len(grid.vec) :
          Len(grid.vec[r]) = Cardinality({k \in 1..Len(board) :
                                board[k] # NEWLINE /\ TextPosition(k)[1] = r - 1})

PositionsAreBoard ==
    /\ grid.t_pos = TextPosition(CHOOSE k \in 1..Len(board) : board[k] = THESEUS)
    /\ grid.m_pos = TextPosition(CHOOSE k \in 1..Len(board) : board[k] = MINOTAUR)

\* how often chr occurs in the sequence row
Occurrences(row, chr) == Cardinality({i \in 1..Len(row) : row[i] = chr})

\* the rows of the rendered text
Rendered == lines(show(grid))

\* every rendered row has the characters of the grid row, as often
RenderedSameMultiset ==
    /\ Len(Rendered) = Len(grid.vec)
    /\ \A r \in 1..Len(grid.vec) : \A chr \in Alphabet :
          Occurrences(Rendered[r], chr) = Occurrences(grid.vec[r], chr)

\* every rendered row is the grid row followed by the one ' ' that show prints
RenderedWithMarker ==
    /\ Len(Rendered) = Len(grid.vec)
    /\ \A r \in 1..Len(grid.vec) : Rendered[r] = Append(grid.vec[r], EMPTY)

\* C11 as stated: for every valid board from_board succeeds with status
\* Continue, the grid rows are the input rows character for character, the
\* rendered rows have the same multiset of characters per row, and t_pos and
\* m_pos are the places of 'T' and 'M' in the input.
C11_ConstructionKeepsBoard ==
    (Parsed /\ ValidBoard)
        => /\ pc = "play" /\ status = "Continue"
           /\ GridIsBoard
           /\ PositionsAreBoard
           /\ RenderedSameMultiset

\* C11 amended: as above, but each rendered row is the input row followed by
\* the one trailing ' ' that show prints after every row.
C11_ConstructionKeepsBoardMarker ==
    (Parsed /\ ValidBoard)
        => /\ pc = "play" /\ status = "Continue"
           /\ GridIsBoard
           /\ PositionsAreBoard
           /\ RenderedWithMarker

\* a valid board of two rows was parsed
C11_Witness ==
    /\ Parsed /\ ValidBoard /\ pc = "play"
    /\ Len(grid.vec) = 2
    /\ grid.t_pos[1] # grid.m_pos[1]

C13_NoIndexPanicOnRectangular ==
    (HasGame /\ Rectangular(grid.vec)) => (pc # "panicked" /\ last.kind # "fault")


(* ------------------------------------------------------------------ *)
(* C14  the grid and the stored positions agree                        *)
(* ------------------------------------------------------------------ *)
\* the cell at t_pos holds 'T' and the cell at m_pos holds 'M'
PositionsHoldEntities ==
    /\ CharAt(grid.vec, grid.t_pos) = THESEUS
    /\ CharAt(grid.vec, grid.m_pos) = MINOTAUR

AfterCall == HasGame /\ last.op \in {"theseus_move", "minotaur_move"}

\* C14 as stated: after every theseus_move and minotaur_move call, in every
\* reachable state, the grid cell at t_pos holds 'T' and the grid cell at
\* m_pos holds 'M'.
C14_PositionsHoldEntities == AfterCall => PositionsHoldEntities

\* C14 amended: after every theseus_move and minotaur_move call that leaves
\* the status Continue, the grid cell at t_pos holds 'T' and the grid cell at
\* m_pos holds 'M' (a seeker move onto the goal or onto the hunter stores the
\* candidate in t_pos and leaves the grid as it was).
C14_PositionsHoldEntitiesInPlay ==
    (AfterCall /\ status = "Continue") => PositionsHoldEntities

\* both entities have been relocated and the game goes on
C14_Witness ==
    /\ status = "Continue"
    /\ last.op = "minotaur_move" /\ last.kind = "step"
    /\ grid.m_pos # last.m_from
    /\ CharAt(grid.vec, last.m_from) = EMPTY
    /\ \E k \in 1..Len(board) : board[k] = THESEUS /\ TextPosition(k) # grid.t_pos

(* ------------------------------------------------------------------ *)
(* C15  entities are moved, never created or destroyed                 *)
(* ------------------------------------------------------------------ *)
\* the positions of the grid that hold chr
CellsHolding(vec, chr) ==
    UNION {{<<r - 1, c - 1>> : c \in {d \in 1..Len(vec[r]) : vec[r][d] = chr}} :
           r \in 1..Len(vec)}

\* C15: in every reachable state whose status is Continue the grid contains
\* exactly one 'T' (at t_pos), exactly one 'M' (at m_pos) and exactly one 'G'
\* (at its initial position), and t_pos differs from m_pos.
C15_EntitiesOnlyMoved ==
    (HasGame /\ status = "Continue")
        => /\ CellsHolding(grid.vec, THESEUS) = {grid.t_pos}
           /\ CellsHolding(grid.vec, MINOTAUR) = {grid.m_pos}
           /\ CellsHolding(grid.vec, GOAL) = {GoalCell}
           /\ grid.t_pos # grid.m_pos

\* the seeker has just moved into an empty cell, the hunter having left its
\* initial cell before
C15_Witness ==
    /\ status = "Continue"
    /\ last.op = "theseus_move" /\ last.kind = "empty"
    /\ grid.t_pos # last.t_from
    /\ \E k \in 1..Len(board) : board[k] = MINOTAUR /\ TextPosition(k) # grid.m_pos

(* ------------------------------------------------------------------ *)
(* C16  the hunter captures without relocating                         *)
(* ------------------------------------------------------------------ *)
\* the candidate cell selected by minotaur_move holds the seeker
CandidateHoldsSeeker ==
    /\ minotaur_select(grid).tag # "fault"
    /\ CharAt(grid.vec, minotaur_select(grid).pos) = THESEUS

\* C16: when the candidate cell selected by minotaur_move holds the seeker,
\* the call sets status to Lose and changes nothing else: m_pos, t_pos and
\* the grid contents are as before the call.
C16_CaptureOnlySetsLose ==
    [][(HasGame /\ IsMinotaurMove /\ CandidateHoldsSeeker)
        => (status' = "Lose" /\ grid' = grid /\ pc' = pc)]_vars

\* the hunter has captured the seeker of a game that was going on
C16_Witness ==
    /\ last.op = "minotaur_move" /\ last.kind = "capture"
    /\ last.pre = "Continue" /\ status = "Lose"
    /\ grid.m_pos = last.m_from /\ grid.t_pos = last.t_from
    /\ CharAt(grid.vec, grid.t_pos) = THESEUS

(* ------------------------------------------------------------------ *)
(* C17  a seeker move changes the grid contents or the status          *)
(* ------------------------------------------------------------------ *)
\* C17: in every reachable state and for every command, after a theseus_move
\* call either the grid contents are unchanged or the status is unchanged
\* (or both).
C17_GridOrStatusKept ==
    [][\A cmd \in Commands :
        (HasGame /\ IsTheseusMove(cmd))
            => (grid'.vec = grid.vec \/ status' = status)]_vars

\* a seeker move has changed the status and kept the grid contents
C17_Witness ==
    /\ last.op = "theseus_move" /\ last.kind \in {"goal", "minotaur"}
    /\ last.pre = "Continue" /\ status # last.pre
    /\ grid.t_pos # last.t_from
    /\ CharAt(grid.vec, last.t_from) = THESEUS

\* ... and a seeker move has changed the grid contents and kept the status
C17_WitnessGrid ==
    /\ last.op = "theseus_move" /\ last.kind = "empty"
    /\ status = last.pre
    /\ CharAt(grid.vec, last.t_from) = EMPTY
    /\ CharAt(grid.vec, grid.t_pos) = THESEUS

(* ------------------------------------------------------------------ *)
(* C18  no vertical approach to a seeker that is not above             *)
(* ------------------------------------------------------------------ *)
SeekerNotAbove == grid.t_pos[1] >= grid.m_pos[1]
SeekerStraightBelow ==
    grid.t_pos[2] = grid.m_pos[2] /\ grid.t_pos[1] > grid.m_pos[1]

C18_WitnessSide ==
    /\ last.op = "minotaur_move" /\ last.pre = "Continue"
    /\ last.t_from[1] > last.m_from[1]
    /\ last.kind = "step" /\ grid.m_pos[1] = last.m_from[1]
    /\ grid.m_pos[2] # last.m_from[2]

(* ------------------------------------------------------------------ *)
(* C19  Skip                                                           *)
(* ------------------------------------------------------------------ *)
\* C19: in every state reachable by any sequence of theseus_move and
\* minotaur_move calls (states after Win or Lose included),
\* theseus_move(Skip) leaves the grid contents, both stored positions and
\* the status unchanged.
C19_SkipIsNoOp ==
    [][(HasGame /\ IsTheseusMove("Skip")) => (grid' = grid /\ status' = status)]_vars

\* the same for the states whose status is Continue
C19_SkipIsNoOpInPlay ==
    [][(HasGame /\ status = "Continue" /\ IsTheseusMove("Skip"))
        => (grid' = grid /\ status' = status)]_vars

(* ------------------------------------------------------------------ *)
(* C20  walls are permanent and impassable                             *)
(* ------------------------------------------------------------------ *)
\* the wall cells of the initial board
InitialWalls ==
    {TextPosition(k) : k \in {j \in 1..Len(board) : board[j] = WALL}}

\* C20: in every state reachable by any sequence of theseus_move and
\* minotaur_move calls, the set of cells holding 'X' equals the set on the
\* initial board, and neither t_pos nor m_pos is a wall cell.
C20_WallsPermanent ==
    HasGame => /\ CellsHolding(grid.vec, WALL) = InitialWalls
               /\ grid.t_pos \notin InitialWalls
               /\ grid.m_pos \notin InitialWalls

\* both entities have faced a wall: the seeker's move into one was ignored
\* and the hunter, with a wall between it and the seeker, stayed
C20_Witness ==
    /\ HasGame
    /\ last.op = "theseus_move" /\ last.kind = "blocked"
    /\ Candidate(grid.t_pos, last.cmd) \in InitialWalls
    /\ grid.t_pos = last.t_from
    /\ \E k \in 1..Len(board) : board[k] = MINOTAUR /\ TextPosition(k) # grid.m_pos

\* the hunter's only step towards the seeker is a wall and it stays
C20_WitnessHunter ==
    /\ last.op = "minotaur_move" /\ last.kind = "stay" /\ last.pre = "Continue"
    /\ last.t_from[2] # last.m_from[2]
    /\ SideNeighbour(last.t_from, last.m_from) \in InitialWalls
    /\ grid.m_pos = last.m_from
====
